---- MODULE Spec2Model ----
(***************************************************************************)
(* Theme resolution and persistence of the Williams College design system. *)
(*                                                                         *)
(* The repository ships two ThemeManager classes:                          *)
(*   "bundle"  src/dev/scripts/main.js   (the v2.0.0 JavaScript bundle)     *)
(*   "module"  src/unnamed/part_003      (the stand-alone theme manager)    *)
(* A page loads one of them; impl records which.  Every handler of a class *)
(* is an operator from handler state to handler state (a record holding     *)
(* the fields the handler can read or write), named after the method it     *)
(* models with the prefix Bundle_ or Module_.  An action runs one whole     *)
(* handler and commits the resulting record to the variables.               *)
(*                                                                         *)
(* The form script (src/unnamed/part_001) and the page components of the   *)
(* bundle (AccessibilityManager, also in src/unnamed/part_002, and         *)
(* ComponentManager) follow, each with specifications of its own.          *)
(***************************************************************************)
EXTENDS Integers, Sequences, FiniteSets, TLC

\* ---------------------------------------------------------------- bounds
\* Pending transition timers (setTimeout callbacks not yet run).
MaxTimers == 2

\* Pending announce timers (setTimeout callbacks of announce not yet run).
MaxAnnounceTimers == 2

\* ------------------------------------------------------------- constants
\* JavaScript null / undefined / absent attribute.
Null == "<null>"

\* this.themes (main.js:19), options.themes (part_003:11).
themes == <<"light", "dark", "auto">>

\* options.defaultTheme (part_003:10).
defaultTheme == "auto"

ThemeSet == {themes[i] : i \in 1..Len(themes)}

\* Strings that are no theme: an unknown name and the empty string (falsy).
InvalidValues == {"blue", ""}

\* What localStorage may hold under the key when the page loads.
StoredValues == {Null} \cup ThemeSet \cup InvalidValues

\* Arguments callers pass to setTheme.
SetThemeArgs == ThemeSet \cup InvalidValues

\* Values of the data-theme-toggle attribute of the buttons in the page.
ToggleValues == {"cycle"} \cup ThemeSet \cup InvalidValues

Impls == {"bundle", "module"}

VARIABLES
  impl,          \* which ThemeManager class the page loaded
  pc,            \* "loading" before new ThemeManager(), "ready" after
  matches,       \* matchMedia('(prefers-color-scheme: dark)').matches
  stored,        \* localStorage value under 'williams-theme', Null if absent
  readFails,     \* localStorage.getItem throws
  writeFails,    \* localStorage.setItem throws
  hasMeta,       \* the page has <meta name="theme-color">
  currentTheme,  \* this.currentTheme
  systemTheme,   \* this.systemTheme (module only)
  dataTheme,     \* data-theme attribute of <html>, Null if not set
  metaColor,     \* content of the theme-color meta tag, Null if untouched
  toggleTheme,   \* theme the toggle buttons were last updated with
  transitioning, \* transition style / theme-transitioning class is on <html>
  timers,        \* pending setTimeout callbacks that end the transition
  events,        \* themechange events dispatched by the last handler
  warns,         \* console.warn calls made by the last handler
  last,          \* last handler run: its name, argument, return, pre-state
  cycleRun,      \* number of consecutive cycleTheme() calls (capped at 3)
  cycleStart,    \* currentTheme before the first call of that run
  setPending,    \* theme a setTheme call stored and no later call overwrote
  \* ---- form configuration script (src/unnamed/part_001)
  fPc,           \* initializeForm: "loading", "awaiting", "resumable", "done"
  fInput,        \* value of the first element named "id", Null if none
  fRequests,     \* guids of the requests sent with fetch
  fNet,          \* what the network answered, Null before it did
  fPromise,      \* the promise fetchFormConfig returned
  fRan,          \* CustomFormScripts methods initializeForm has called
  fDom           \* what those methods did to the page

themeVars == <<impl, pc, matches, stored, readFails, writeFails, hasMeta,
          currentTheme, systemTheme, dataTheme, metaColor, toggleTheme,
          transitioning, timers, events, warns, last, cycleRun, cycleStart,
          setPending>>

formVars == <<fPc, fInput, fRequests, fNet, fPromise, fRan, fDom>>

\* ------------------------------------------- page components (main.js)
\* The AccessibilityManager of the page is the one of the bundle
\* (src/dev/scripts/main.js) or the stand-alone one (src/unnamed/part_002);
\* the ComponentManager exists in the bundle only.
A11yImpls == {"bundle", "module"}

\* The elements with class modal, in document order.
Modals == <<"modal1", "modal2">>

ModalSet == {Modals[i] : i \in 1..Len(Modals)}

\* Elements enterFocusTrap is called with: the modals and a container
\* marked data-focus-trap.
FocusTrapElements == ModalSet \cup {"panel"}

\* element.querySelector('button, [href], input, ...') of those elements:
\* each modal holds a close button, the container nothing focusable.
FirstFocusable ==
  [e \in FocusTrapElements |->
     IF e \in ModalSet THEN e \o "-close" ELSE Null]

\* Elements of the page outside the modals that can hold the focus.
PageElements == {"open-modal", "nav-link"}

\* The layers handleEscape looks for besides modals, by their class.
NavLayers == {"nav-dropdown", "mobile-nav", "header-user"}

\* The toggle element closing a layer gives the focus to.
ToggleOf ==
  [l \in NavLayers |-> l \o "-toggle"]

\* The live regions setupAriaLiveRegions creates, by id.
Regions == {"aria-live-polite", "aria-live-assertive"}

\* options.enableA11yAnnouncements (main.js:163, part_002:13); both pages
\* construct the manager without options.
enableA11yAnnouncements == TRUE

\* Messages and priorities callers pass to announce; Null is an omitted
\* priority, "urgent" a priority that names no region.
AnnounceMessages == {"Saved", "Deleted"}

AnnouncePriorities == {Null, "polite", "assertive", "urgent"}

\* Elements with class dropdown that a data-dropdown-toggle trigger names.
Dropdowns == {"dropdown1", "dropdown2", "dropdown3"}

\* Where a click can land for the dropdown handler besides a trigger:
\* inside an element with class dropdown, or outside all of them.
ClickPlaces == {"inside", "outside"}

\* The role="tab" elements of the tablist, and one with no tablist ancestor.
Tabs == {"tab1", "tab2", "tab3"}

OrphanTab == "tab0"

\* aria-controls of each tab; no element has the id tab3 names.
Controls ==
  [t \in Tabs \cup {OrphanTab} |->
     CASE t = "tab1" -> "panel1"
       [] t = "tab2" -> "panel2"
       [] t = "tab3" -> "panel-missing"
       [] OTHER -> "panel0"]

Panels == {"panel0", "panel1", "panel2"}

\* The th.sortable cells of the header row, in document order.
Headers == <<"Name", "Score">>

HeaderSet == {Headers[i] : i \in 1..Len(Headers)}

\* The rows a table body may hold and the text of their cells; row4 has
\* a single cell (it spans the columns).
RowCells ==
  [r \in {"row1", "row2", "row3", "row4"} |->
     CASE r = "row1" -> <<"b", "10">>
       [] r = "row2" -> <<"a", "2">>
       [] r = "row3" -> <<"a", "x">>
       [] OTHER -> <<"c">>]

RowIds == DOMAIN RowCells

\* The bodies a table may have: three different rows in any order.
TableBodies ==
  {rows \in [1..3 -> RowIds] : \A i, j \in 1..3 : rows[i] = rows[j] => i = j}

\* parseFloat of the cell texts; NaN for text that starts with no number.
NaN == [nan |-> TRUE, value |-> 0]

parseFloat ==
  [text \in {"a", "b", "c", "x", "2", "10"} |->
     CASE text = "2" -> [nan |-> FALSE, value |-> 2]
       [] text = "10" -> [nan |-> FALSE, value |-> 10]
       [] OTHER -> NaN]

isNaN(number) == number.nan

\* The cell texts in the order of String.prototype.localeCompare.
Collation == <<"10", "2", "a", "b", "c", "x">>

VARIABLES
  a11yImpl,            \* which AccessibilityManager class the page loaded
  currentFocusTrap,    \* this.currentFocusTrap
  lastFocusedElement,  \* this.lastFocusedElement
  activeElement,       \* document.activeElement
  modalShow,           \* the modals with class show
  ariaHidden,          \* aria-hidden of each modal, Null if not set
  bodyOverflow,        \* document.body.style.overflow
  layerOpen,           \* the nav layers with class open
  hasToggle,           \* the nav layers whose toggle element exists
  toggleExpanded,      \* aria-expanded of each nav toggle, Null if not set
  liveText,            \* textContent of each live region
  liveTimers,          \* pending announce timers, oldest first
  dropOpen,            \* the dropdowns with class open
  triggerExpanded,     \* aria-expanded of each dropdown trigger
  triggerInDropdown,   \* dropdowns whose trigger is inside a .dropdown
  tabSelected,         \* aria-selected of each tab
  tabActive,           \* the tabs with class active
  panelHidden,         \* the hidden property of each panel
  sortDirection,       \* data-sort-direction of each header, Null if absent
  tbodyRows,           \* the tr elements of the table body, in order
  uiLast,              \* last handler run: its name, argument, pre-state
  modalRun,            \* focus before the first showModal, handlers since
  lastAnnounce,        \* per region, the message of the latest announce
  lastSort             \* header and direction of the latest sortTable call

uiVars == <<a11yImpl, currentFocusTrap, lastFocusedElement, activeElement,
            modalShow, ariaHidden, bodyOverflow, layerOpen, hasToggle,
            toggleExpanded, liveText, liveTimers, dropOpen, triggerExpanded,
            triggerInDropdown, tabSelected, tabActive, panelHidden,
            sortDirection, tbodyRows, uiLast, modalRun, lastAnnounce,
            lastSort>>

vars == <<themeVars, formVars, uiVars>>

\* ------------------------------------------------------- JavaScript helpers
\* Truthiness of a string-or-null value (x || y picks y when x is falsy).
Truthy(v) == v # Null /\ v # ""

\* Array.prototype.indexOf, 0-based, -1 when absent.
IndexOf(seq, x) ==
  IF \E i \in 1..Len(seq) : seq[i] = x
    THEN (CHOOSE i \in 1..Len(seq) : seq[i] = x) - 1
    ELSE -1

\* Array.prototype.includes.
Includes(seq, x) == \E i \in 1..Len(seq) : seq[i] = x

\* The state a handler starts from: no event dispatched, nothing logged yet.
Cur ==
  [matches |-> matches, stored |-> stored, currentTheme |-> currentTheme,
   systemTheme |-> systemTheme, dataTheme |-> dataTheme,
   metaColor |-> metaColor, toggleTheme |-> toggleTheme,
   transitioning |-> transitioning, timers |-> timers,
   events |-> <<>>, warns |-> {}, ret |-> Null]

\* ================================================================ bundle
\* src/dev/scripts/main.js

\* Faulty variant: reads another key, which is never set.
Mut_Bundle_getStoredTheme(s) == [s EXCEPT !.ret = "auto"]

Bundle_getStoredTheme(s) ==
  IF readFails
    THEN [s EXCEPT !.warns = @ \cup {"read"}, !.ret = "auto"]
    ELSE [s EXCEPT !.ret = IF Truthy(s.stored) THEN s.stored ELSE "auto"]

\* Faulty variant: auto is taken for "no preference" and the key removed.
Mut_Bundle_storeTheme(s, theme) ==
  IF writeFails
    THEN [s EXCEPT !.warns = @ \cup {"write"}]
    ELSE [s EXCEPT !.stored = IF theme = "auto" THEN Null ELSE theme]

Bundle_storeTheme(s, theme) ==
  IF writeFails
    THEN [s EXCEPT !.warns = @ \cup {"write"}]
    ELSE [s EXCEPT !.stored = theme]

Bundle_updateDocumentTheme(s, actualTheme, animate) ==
  LET s1 == IF animate
              THEN [s EXCEPT !.transitioning = TRUE, !.timers = @ + 1]
              ELSE s
      s2 == [s1 EXCEPT !.dataTheme = actualTheme]
  IN  IF hasMeta
        THEN [s2 EXCEPT !.metaColor =
                 IF actualTheme = "dark" THEN "#09090b" ELSE "#500082"]
        ELSE s2

Bundle_updateToggleButtons(s) == [s EXCEPT !.toggleTheme = s.currentTheme]

Bundle_applyTheme(s, theme0, animate) ==
  LET invalid == ~Includes(themes, theme0)
      theme == IF invalid THEN "auto" ELSE theme0
      s1 == IF invalid THEN [s EXCEPT !.warns = @ \cup {"invalid"}] ELSE s
      s2 == [s1 EXCEPT !.currentTheme = theme]
      s3 == Bundle_storeTheme(s2, theme)
      actualTheme == IF theme = "auto"
                       THEN (IF s3.matches THEN "dark" ELSE "light")
                       ELSE theme
      s4 == Bundle_updateDocumentTheme(s3, actualTheme, animate)
      s5 == Bundle_updateToggleButtons(s4)
  IN  [s5 EXCEPT !.events =
          Append(@, [theme |-> theme, actualTheme |-> actualTheme])]

Bundle_cycleTheme(s) ==
  LET currentIndex == IndexOf(themes, s.currentTheme)
      nextIndex == (currentIndex + 1) % Len(themes)
  IN  Bundle_applyTheme(s, themes[nextIndex + 1], TRUE)

Bundle_setTheme(s, theme) == Bundle_applyTheme(s, theme, TRUE)

Bundle_getTheme(s) == [s EXCEPT !.ret = s.currentTheme]

\* Faulty variant: returns the preference without resolving auto.
Mut_Bundle_getActualTheme(s) == [s EXCEPT !.ret = s.currentTheme]

Bundle_getActualTheme(s) ==
  [s EXCEPT !.ret = IF s.currentTheme = "auto"
                      THEN (IF s.matches THEN "dark" ELSE "light")
                      ELSE s.currentTheme]

\* Faulty variant: the listener follows the OS whatever the preference is.
Mut_Bundle_onSystemChange(s, e) ==
  Bundle_updateDocumentTheme(s, IF e THEN "dark" ELSE "light", FALSE)

\* The 'change' listener registered by init (main.js:31-35); e is e.matches.
Bundle_onSystemChange(s, e) ==
  IF s.currentTheme = "auto"
    THEN Bundle_updateDocumentTheme(s, IF e THEN "dark" ELSE "light", FALSE)
    ELSE s

\* The click listener of a [data-theme-toggle] button (main.js:107-116).
Bundle_onToggleClick(s, mode) ==
  IF mode = "cycle" THEN Bundle_cycleTheme(s)
  ELSE IF Includes(themes, mode) THEN Bundle_applyTheme(s, mode, TRUE)
  ELSE s

Bundle_init(s) == Bundle_applyTheme(s, s.currentTheme, FALSE)

Bundle_constructor(s) ==
  LET s1 == Bundle_getStoredTheme(s)
      s2 == [s1 EXCEPT !.currentTheme = s1.ret, !.ret = Null]
  IN  Bundle_init(s2)

\* ================================================================ module
\* src/unnamed/part_003

Module_getStoredTheme(s) ==
  IF readFails
    THEN [s EXCEPT !.warns = @ \cup {"read"}, !.ret = Null]
    ELSE [s EXCEPT !.ret = s.stored]

Module_storeTheme(s, theme) ==
  IF writeFails
    THEN [s EXCEPT !.warns = @ \cup {"write"}]
    ELSE [s EXCEPT !.stored = theme]

Module_detectSystemTheme(s) ==
  [s EXCEPT !.systemTheme = IF s.matches THEN "dark" ELSE "light"]

Module_updateToggleButtons(s, theme) == [s EXCEPT !.toggleTheme = theme]

Module_updateMetaThemeColor(s, theme) ==
  IF hasMeta
    THEN [s EXCEPT !.metaColor =
             IF theme = "dark" THEN "--gray-900" ELSE "--williams-purple"]
    ELSE s

\* Faulty variant: the event carries the preference as the applied theme.
Mut_Module_dispatchThemeChangeEvent(s, theme, appliedTheme) ==
  [s EXCEPT !.events =
      Append(@, [theme |-> theme, appliedTheme |-> theme,
                 systemTheme |-> s.systemTheme])]

Module_dispatchThemeChangeEvent(s, theme, appliedTheme) ==
  [s EXCEPT !.events =
      Append(@, [theme |-> theme, appliedTheme |-> appliedTheme,
                 systemTheme |-> s.systemTheme])]

\* Faulty variant: a failing setItem is not caught and ends applyTheme.
Mut_Module_applyTheme(s, theme, animate) ==
  LET s1 == IF animate THEN [s EXCEPT !.transitioning = TRUE] ELSE s
      actualTheme == IF theme = "auto"
                       THEN (IF Truthy(s1.systemTheme)
                               THEN s1.systemTheme ELSE "light")
                       ELSE theme
      s2 == [s1 EXCEPT !.dataTheme = actualTheme]
      s3 == [s2 EXCEPT !.currentTheme = theme]
      s4 == Module_storeTheme(s3, theme)
      s5 == Module_dispatchThemeChangeEvent(s4, theme, actualTheme)
      s6 == Module_updateToggleButtons(s5, theme)
      s7 == IF animate THEN [s6 EXCEPT !.timers = @ + 1] ELSE s6
  IN  IF writeFails THEN s3 ELSE Module_updateMetaThemeColor(s7, actualTheme)

Module_applyTheme(s, theme, animate) ==
  LET s1 == IF animate THEN [s EXCEPT !.transitioning = TRUE] ELSE s
      actualTheme == IF theme = "auto"
                       THEN (IF Truthy(s1.systemTheme)
                               THEN s1.systemTheme ELSE "light")
                       ELSE theme
      s2 == [s1 EXCEPT !.dataTheme = actualTheme]
      s3 == [s2 EXCEPT !.currentTheme = theme]
      s4 == Module_storeTheme(s3, theme)
      s5 == Module_dispatchThemeChangeEvent(s4, theme, actualTheme)
      s6 == Module_updateToggleButtons(s5, theme)
      s7 == IF animate THEN [s6 EXCEPT !.timers = @ + 1] ELSE s6
  IN  Module_updateMetaThemeColor(s7, actualTheme)

\* Faulty variant: the index is not advanced before it is wrapped.
Mut_Module_cycleTheme(s) ==
  LET currentIndex == IndexOf(themes, s.currentTheme)
      nextIndex == currentIndex % Len(themes)
      nextTheme == themes[nextIndex + 1]
  IN  Module_applyTheme(s, nextTheme, TRUE)

Module_cycleTheme(s) ==
  LET currentIndex == IndexOf(themes, s.currentTheme)
      nextIndex == (currentIndex + 1) % Len(themes)
      nextTheme == themes[nextIndex + 1]
  IN  Module_applyTheme(s, nextTheme, TRUE)

Module_setTheme(s, theme) ==
  IF Includes(themes, theme)
    THEN Module_applyTheme(s, theme, TRUE)
    ELSE [s EXCEPT !.warns = @ \cup {"invalid"}]

Module_getTheme(s) == [s EXCEPT !.ret = s.currentTheme]

\* Faulty variant: the resolved theme is assigned to this.currentTheme.
Mut_Module_getAppliedTheme(s) ==
  LET applied == IF s.currentTheme = "auto"
                   THEN (IF Truthy(s.systemTheme)
                           THEN s.systemTheme ELSE "light")
                   ELSE s.currentTheme
  IN  [s EXCEPT !.currentTheme = applied, !.ret = applied]

Module_getAppliedTheme(s) ==
  [s EXCEPT !.ret = IF s.currentTheme = "auto"
                      THEN (IF Truthy(s.systemTheme)
                              THEN s.systemTheme ELSE "light")
                      ELSE s.currentTheme]

\* The 'change' listener of setupSystemThemeListener; e is e.matches.
Module_onSystemChange(s, e) ==
  LET s1 == [s EXCEPT !.systemTheme = IF e THEN "dark" ELSE "light"]
  IN  IF s1.currentTheme = "auto"
        THEN Module_applyTheme(s1, "auto", TRUE)
        ELSE s1

\* Faulty variant: the button's value goes to applyTheme unchecked.
Mut_Module_onToggleClick(s, targetTheme) ==
  IF targetTheme = "cycle" THEN Module_cycleTheme(s)
  ELSE IF Truthy(targetTheme) THEN Module_applyTheme(s, targetTheme, TRUE)
  ELSE s

\* The click listener setupThemeToggles gives a [data-theme-toggle] button.
Module_onToggleClick(s, targetTheme) ==
  IF targetTheme = "cycle" THEN Module_cycleTheme(s)
  ELSE IF Truthy(targetTheme) THEN Module_setTheme(s, targetTheme)
  ELSE s

\* setupThemeToggles: every button is set to the current theme, then wired.
Module_setupThemeToggles(s) == [s EXCEPT !.toggleTheme = s.currentTheme]

Module_init(s) ==
  LET s1 == Module_getStoredTheme(s)
      storedTheme == s1.ret
      s2 == [s1 EXCEPT !.currentTheme =
                IF Truthy(storedTheme) THEN storedTheme ELSE defaultTheme,
                       !.ret = Null]
      s3 == Module_applyTheme(s2, s2.currentTheme, FALSE)
      s4 == Module_detectSystemTheme(s3)
  IN  Module_setupThemeToggles(s4)

Module_constructor(s) ==
  Module_init([s EXCEPT !.currentTheme = Null, !.systemTheme = Null])

\* =============================================================== actions
\* What the handlers may change, as it was when the handler started.
Pre ==
  [currentTheme |-> currentTheme, stored |-> stored, dataTheme |-> dataTheme,
   matches |-> matches, systemTheme |-> systemTheme,
   metaColor |-> metaColor, toggleTheme |-> toggleTheme]

\* Commit the state s a handler ended in; op and arg name the handler run.
Commit(op, arg, s) ==
  /\ s.timers <= MaxTimers
  /\ matches' = s.matches
  /\ stored' = s.stored
  /\ currentTheme' = s.currentTheme
  /\ systemTheme' = s.systemTheme
  /\ dataTheme' = s.dataTheme
  /\ metaColor' = s.metaColor
  /\ toggleTheme' = s.toggleTheme
  /\ transitioning' = s.transitioning
  /\ timers' = s.timers
  /\ events' = s.events
  /\ warns' = s.warns
  /\ last' = [op |-> op, arg |-> arg, ret |-> s.ret, pre |-> Pre]
  /\ UNCHANGED <<impl, readFails, writeFails, hasMeta>>
  /\ UNCHANGED formVars
  /\ UNCHANGED uiVars

NoRun == cycleRun' = 0 /\ cycleStart' = Null

KeepRun == UNCHANGED <<cycleRun, cycleStart>>

\* setTheme(theme) has just stored theme / nothing has replaced what the
\* last setTheme stored / another call has set the preference.
SetPending(theme) ==
  setPending' = IF theme \in ThemeSet /\ ~writeFails THEN theme ELSE Null

KeepPending == UNCHANGED setPending

NoPending == setPending' = Null

\* new ThemeManager() at DOM ready (main.js:1013, part_003:322-329).
Construct ==
  /\ pc = "loading"
  /\ pc' = "ready"
  /\ Commit("init", Null,
            IF impl = "bundle" THEN Bundle_constructor(Cur)
                               ELSE Module_constructor(Cur))
  /\ NoRun
  /\ IF readFails THEN NoPending ELSE KeepPending

\* window.themeManager.setTheme(theme)
SetTheme ==
  /\ pc = "ready"
  /\ \E theme \in SetThemeArgs :
       /\ Commit("setTheme", theme,
                 IF impl = "bundle" THEN Bundle_setTheme(Cur, theme)
                                    ELSE Module_setTheme(Cur, theme))
       /\ SetPending(theme)
  /\ UNCHANGED pc
  /\ NoRun

\* window.themeManager.cycleTheme()
CycleTheme ==
  /\ pc = "ready"
  /\ Commit("cycleTheme", Null,
            IF impl = "bundle" THEN Bundle_cycleTheme(Cur)
                               ELSE Module_cycleTheme(Cur))
  /\ UNCHANGED pc
  /\ IF cycleRun \in 1..2
       THEN cycleRun' = cycleRun + 1 /\ UNCHANGED cycleStart
       ELSE cycleRun' = 1 /\ cycleStart' = currentTheme
  /\ NoPending

\* A click on a [data-theme-toggle] button that was in the page at init.
ToggleClick ==
  /\ pc = "ready"
  /\ \E mode \in ToggleValues :
       Commit("click", mode,
              IF impl = "bundle" THEN Bundle_onToggleClick(Cur, mode)
                                 ELSE Module_onToggleClick(Cur, mode))
  /\ UNCHANGED pc
  /\ NoRun
  /\ NoPending

\* The OS colour scheme changes: matches flips and the 'change' listener
\* runs with e.matches the new value.
SystemChange ==
  /\ pc = "ready"
  /\ LET e == ~matches
         s == [Cur EXCEPT !.matches = e]
     IN  Commit("change", e,
                IF impl = "bundle" THEN Bundle_onSystemChange(s, e)
                                   ELSE Module_onSystemChange(s, e))
  /\ UNCHANGED pc
  /\ NoRun
  /\ KeepPending

\* window.themeManager.getTheme()
GetTheme ==
  /\ pc = "ready"
  /\ Commit("getTheme", Null,
            IF impl = "bundle" THEN Bundle_getTheme(Cur)
                               ELSE Module_getTheme(Cur))
  /\ UNCHANGED pc
  /\ KeepRun
  /\ KeepPending

\* window.themeManager.getActualTheme() / getAppliedTheme()
GetEffectiveTheme ==
  /\ pc = "ready"
  /\ Commit("getEffectiveTheme", Null,
            IF impl = "bundle" THEN Bundle_getActualTheme(Cur)
                               ELSE Module_getAppliedTheme(Cur))
  /\ UNCHANGED pc
  /\ KeepRun
  /\ KeepPending

\* A setTimeout callback of applyTheme / updateDocumentTheme ends the
\* transition (main.js:91-93, part_003:123-125).
TransitionTimeout ==
  /\ pc = "ready"
  /\ timers > 0
  /\ Commit("timeout", Null,
            [Cur EXCEPT !.transitioning = FALSE, !.timers = @ - 1])
  /\ UNCHANGED pc
  /\ KeepRun
  /\ KeepPending

\* The page is reloaded: the script's state and the DOM start afresh,
\* localStorage and the OS setting stay.
Reload ==
  /\ pc = "ready"
  /\ pc' = "loading"
  /\ Commit("reload", Null,
            [Cur EXCEPT !.currentTheme = Null, !.systemTheme = Null,
                        !.dataTheme = Null, !.metaColor = Null,
                        !.toggleTheme = Null, !.transitioning = FALSE,
                        !.timers = 0])
  /\ NoRun
  /\ KeepPending

\* localStorage becomes unavailable or available again (quota reached or
\* freed, site data blocked or allowed); no handler of the page runs.
StorageChange ==
  /\ \E r, w \in BOOLEAN :
       /\ <<r, w>> # <<readFails, writeFails>>
       /\ readFails' = r
       /\ writeFails' = w
  /\ events' = <<>>
  /\ warns' = {}
  /\ last' = [op |-> "storage", arg |-> Null, ret |-> Null, pre |-> Pre]
  /\ UNCHANGED <<impl, pc, matches, stored, hasMeta, currentTheme,
                 systemTheme, dataTheme, metaColor, toggleTheme,
                 transitioning, timers, cycleRun, cycleStart, setPending>>
  /\ UNCHANGED formVars
  /\ UNCHANGED uiVars

\* The state the handlers of the page components read and write.
UiCur ==
  [currentFocusTrap |-> currentFocusTrap,
   lastFocusedElement |-> lastFocusedElement,
   activeElement |-> activeElement, modalShow |-> modalShow,
   ariaHidden |-> ariaHidden, bodyOverflow |-> bodyOverflow,
   layerOpen |-> layerOpen, toggleExpanded |-> toggleExpanded,
   liveText |-> liveText, liveTimers |-> liveTimers,
   dropOpen |-> dropOpen, triggerExpanded |-> triggerExpanded,
   tabSelected |-> tabSelected, tabActive |-> tabActive,
   panelHidden |-> panelHidden, sortDirection |-> sortDirection,
   tbodyRows |-> tbodyRows, lastAnnounce |-> lastAnnounce,
   lastSort |-> lastSort]

\* No modal is shown, no layer is open, no focus trap has been entered.
A11yIdle ==
  /\ a11yImpl = "bundle"
  /\ currentFocusTrap = Null
  /\ lastFocusedElement = Null
  /\ activeElement = "open-modal"
  /\ modalShow = {}
  /\ ariaHidden = [m \in ModalSet |-> Null]
  /\ bodyOverflow = ""
  /\ layerOpen = {}
  /\ hasToggle = NavLayers
  /\ toggleExpanded = [l \in NavLayers |-> Null]
  /\ modalRun = [before |-> Null, ops |-> {}]

\* The live regions are empty and no announce timer is pending.
LiveIdle ==
  /\ liveText = [r \in Regions |-> ""]
  /\ liveTimers = <<>>
  /\ lastAnnounce = [r \in Regions |-> Null]

\* Every dropdown is closed.
DropIdle ==
  /\ dropOpen = {}
  /\ triggerExpanded = [d \in Dropdowns |-> Null]
  /\ triggerInDropdown = Dropdowns

\* No tab is selected and every panel is hidden.
TabIdle ==
  /\ tabSelected = [t \in Tabs \cup {OrphanTab} |-> "false"]
  /\ tabActive = {}
  /\ panelHidden = [p \in Panels |-> TRUE]

\* The table has not been sorted.
TableIdle ==
  /\ sortDirection = [h \in HeaderSet |-> Null]
  /\ tbodyRows = <<"row1", "row2", "row3">>
  /\ lastSort = [header |-> Null, direction |-> Null]

\* No handler of the page components has run.
UiLastIdle == uiLast = [op |-> "none", arg |-> Null, pre |-> UiCur]

UiIdle ==
  /\ A11yIdle
  /\ LiveIdle
  /\ DropIdle
  /\ TabIdle
  /\ TableIdle
  /\ UiLastIdle

\* The form script has not run: no element read, nothing sent or changed.
FormIdle ==
  /\ fPc = "loading"
  /\ fInput = Null
  /\ fRequests = <<>>
  /\ fNet = [kind |-> "none"]
  /\ fPromise = [state |-> "none"]
  /\ fRan = {}
  /\ fDom = [removed |-> {}, background |-> Null, observing |-> FALSE]

Init ==
  /\ impl \in Impls
  /\ pc = "loading"
  /\ matches \in BOOLEAN
  /\ stored \in StoredValues
  /\ readFails \in BOOLEAN
  /\ writeFails \in BOOLEAN
  /\ hasMeta \in BOOLEAN
  /\ currentTheme = Null
  /\ systemTheme = Null
  /\ dataTheme = Null
  /\ metaColor = Null
  /\ toggleTheme = Null
  /\ transitioning = FALSE
  /\ timers = 0
  /\ events = <<>>
  /\ warns = {}
  /\ last = [op |-> "none", arg |-> Null, ret |-> Null,
             pre |-> [currentTheme |-> Null, stored |-> stored,
                      dataTheme |-> Null, matches |-> matches,
                      systemTheme |-> Null, metaColor |-> Null,
                      toggleTheme |-> Null]]
  /\ cycleRun = 0
  /\ cycleStart = Null
  /\ setPending = Null
  /\ FormIdle
  /\ UiIdle

Next ==
  \/ Construct
  \/ SetTheme
  \/ CycleTheme
  \/ ToggleClick
  \/ SystemChange
  \/ GetTheme
  \/ GetEffectiveTheme
  \/ TransitionTimeout
  \/ Reload
  \/ StorageChange

Spec == Init /\ [][Next]_vars

\* ==================================================== form configuration
\* src/unnamed/part_001

\* Values of the form's id input that make a request.
FormGuids == {"g1", "g2"}

\* The first element named "id": missing (Null), empty, or holding a guid.
FormInputs == {Null, ""} \cup FormGuids

\* settings = config.row[0]; addBgImage may be absent, empty or a URL.
FormSettings ==
  [preventPrepop : {"1", "0"}, addBgImage : {Null, "", "bg.jpg"},
   hideMapLocation : {"1", "0"}, hideRegisterDate : {"1", "0"}]

\* JSON null, as response.json() and fetchFormConfig's catch give it.
JsonNull == [kind |-> "null"]

\* Response bodies: text that is no JSON, null, {} and {row: []}, and
\* {row: [settings]}.
FormBodies ==
  {[kind |-> "invalid"], JsonNull, [kind |-> "object"], [kind |-> "norows"]}
    \cup {[kind |-> "rows", row0 |-> st] : st \in FormSettings}

\* What fetch(url) ends in: a rejection (network error) or a response.
NetOutcomes ==
  {[kind |-> "neterror", status |-> 0, body |-> JsonNull]}
    \cup {[kind |-> "response", status |-> c, body |-> b] :
            c \in {200, 404, 500}, b \in FormBodies}

\* response.ok
ResponseOk(net) == net.status \in 200..299

\* Faulty variant: the response status is not looked at.
Mut_fetchFormConfig(guid, net) ==
  IF net.kind = "neterror" THEN [state |-> "resolved", value |-> JsonNull]
  ELSE IF net.body.kind = "invalid"
    THEN [state |-> "resolved", value |-> JsonNull]
  ELSE [state |-> "resolved", value |-> net.body]

\* fetchFormConfig(guid) from the moment fetch(url) settles with net: the
\* promise it returns, settled.
fetchFormConfig(guid, net) ==
  IF net.kind = "neterror" THEN [state |-> "resolved", value |-> JsonNull]
  ELSE IF ~ResponseOk(net) THEN [state |-> "resolved", value |-> JsonNull]
  ELSE IF net.body.kind = "invalid"
    THEN [state |-> "resolved", value |-> JsonNull]
  ELSE [state |-> "resolved", value |-> net.body]

\* CustomFormScripts: f is [ran, dom].
hideMapAndLocation(f) ==
  [ran |-> f.ran \cup {"hideMapAndLocation"},
   dom |-> [f.dom EXCEPT !.removed =
               @ \cup {"#register_map", "#map", "#register_location"}]]

hideRegisterDate(f) ==
  [ran |-> f.ran \cup {"hideRegisterDate"},
   dom |-> [f.dom EXCEPT !.removed = @ \cup {"#register_date"}]]

addBgImage(f, url) ==
  [ran |-> f.ran \cup {"addBgImage"},
   dom |-> [f.dom EXCEPT !.background = url]]

preventPrepopOnAddGuest(f) ==
  [ran |-> f.ran \cup {"preventPrepopOnAddGuest"},
   dom |-> [f.dom EXCEPT !.observing = TRUE]]

\* initializeForm after "await fetchFormConfig(guidValue)" (lines 46-70).
initializeFormResume(promise, f) ==
  IF promise.state # "resolved" THEN f
  ELSE IF promise.value.kind # "rows" THEN f
  ELSE
    LET settings == promise.value.row0
        f1 == IF settings.preventPrepop = "1"
                THEN preventPrepopOnAddGuest(f) ELSE f
        f2 == IF Truthy(settings.addBgImage)
                THEN addBgImage(f1, settings.addBgImage) ELSE f1
        f3 == IF settings.hideMapLocation = "1"
                THEN hideMapAndLocation(f2) ELSE f2
    IN  IF settings.hideRegisterDate = "1" THEN hideRegisterDate(f3) ELSE f3

\* DOMContentLoaded: initializeForm up to its await (lines 33-46); the
\* request is sent by fetchFormConfig (lines 17-21).
InitializeForm ==
  /\ fPc = "loading"
  /\ IF ~Truthy(fInput)
       THEN /\ fPc' = "done"
            /\ UNCHANGED <<fRequests, fPromise>>
       ELSE /\ fPc' = "awaiting"
            /\ fRequests' = Append(fRequests, fInput)
            /\ fPromise' = [state |-> "pending"]
  /\ UNCHANGED <<fInput, fNet, fRan, fDom>>
  /\ UNCHANGED themeVars
  /\ UNCHANGED uiVars

\* fetch(url) settles and fetchFormConfig runs to its return.
FetchSettles ==
  /\ fPc = "awaiting"
  /\ \E net \in NetOutcomes :
       /\ fNet' = net
       /\ fPromise' = fetchFormConfig(fInput, net)
  /\ fPc' = "resumable"
  /\ UNCHANGED <<fInput, fRequests, fRan, fDom>>
  /\ UNCHANGED themeVars
  /\ UNCHANGED uiVars

\* initializeForm resumes with the settled promise.
InitializeFormResume ==
  /\ fPc = "resumable"
  /\ LET f == initializeFormResume(fPromise, [ran |-> fRan, dom |-> fDom])
     IN  fRan' = f.ran /\ fDom' = f.dom
  /\ fPc' = "done"
  /\ UNCHANGED <<fInput, fRequests, fNet, fPromise>>
  /\ UNCHANGED themeVars
  /\ UNCHANGED uiVars

\* The theme manager has not been constructed.
ThemeIdle ==
  /\ impl = "bundle"
  /\ pc = "loading"
  /\ matches = FALSE
  /\ stored = Null
  /\ readFails = FALSE
  /\ writeFails = FALSE
  /\ hasMeta = FALSE
  /\ currentTheme = Null
  /\ systemTheme = Null
  /\ dataTheme = Null
  /\ metaColor = Null
  /\ toggleTheme = Null
  /\ transitioning = FALSE
  /\ timers = 0
  /\ events = <<>>
  /\ warns = {}
  /\ last = [op |-> "none", arg |-> Null, ret |-> Null,
             pre |-> [currentTheme |-> Null, stored |-> Null,
                      dataTheme |-> Null, matches |-> FALSE,
                      systemTheme |-> Null, metaColor |-> Null,
                      toggleTheme |-> Null]]
  /\ cycleRun = 0
  /\ cycleStart = Null
  /\ setPending = Null

FormInit ==
  /\ ThemeIdle
  /\ fPc = "loading"
  /\ fInput \in FormInputs
  /\ fRequests = <<>>
  /\ fNet = [kind |-> "none"]
  /\ fPromise = [state |-> "none"]
  /\ fRan = {}
  /\ fDom = [removed |-> {}, background |-> Null, observing |-> FALSE]
  /\ UiIdle

FormNext ==
  \/ InitializeForm
  \/ FetchSettles
  \/ InitializeFormResume

FormSpec == FormInit /\ [][FormNext]_vars

\* ===================================== accessibility manager (main.js)
\* The methods below are the same text in src/unnamed/part_002, except
\* handleEscape.  u is the state the handler starts in (see UiCur).

\* announce that writes the message at once and clears it 100 ms later.
Mut_A11y_announce(u, message, priority) ==
  IF ~enableA11yAnnouncements THEN u
  ELSE LET regionId == IF priority = "assertive"
                         THEN "aria-live-assertive"
                         ELSE "aria-live-polite"
       IN  [u EXCEPT !.liveText[regionId] = message,
                     !.liveTimers = Append(@, [region |-> regionId,
                                               message |-> ""]),
                     !.lastAnnounce[regionId] = message]

\* announce(message, priority = 'polite'), main.js:485-497.  The regions
\* exist: setupAriaLiveRegions created them in init.
A11y_announce(u, message, priority) ==
  IF ~enableA11yAnnouncements THEN u
  ELSE LET regionId == IF priority = "assertive"
                         THEN "aria-live-assertive"
                         ELSE "aria-live-polite"
       IN  [u EXCEPT !.liveText[regionId] = "",
                     !.liveTimers = Append(@, [region |-> regionId,
                                               message |-> message]),
                     !.lastAnnounce[regionId] = message]

\* The callback announce passed to setTimeout, main.js:493-495.
A11y_announceCallback(u, timer) ==
  [u EXCEPT !.liveText[timer.region] = timer.message]

\* enterFocusTrap(element), main.js:562-570.
A11y_enterFocusTrap(u, element) ==
  LET u1 == [u EXCEPT !.currentFocusTrap = element,
                      !.lastFocusedElement = u.activeElement]
      firstFocusable == FirstFocusable[element]
  IN  IF firstFocusable # Null
        THEN [u1 EXCEPT !.activeElement = firstFocusable]
        ELSE u1

\* exitFocusTrap(), main.js:572-579.
A11y_exitFocusTrap(u) ==
  LET u1 == [u EXCEPT !.currentFocusTrap = Null]
  IN  IF u1.lastFocusedElement # Null
        THEN [u1 EXCEPT !.activeElement = u1.lastFocusedElement,
                        !.lastFocusedElement = Null]
        ELSE u1

\* closeModal(modal), main.js:658-663.
A11y_closeModal(u, modal) ==
  LET u1 == [u EXCEPT !.modalShow = @ \ {modal},
                      !.ariaHidden[modal] = "true"]
  IN  A11y_announce(A11y_exitFocusTrap(u1), "Modal closed", Null)

\* The toggle.setAttribute / toggle.focus() pair of the close helpers.
A11y_closeToggle(u, layer) ==
  IF layer \in hasToggle
    THEN [u EXCEPT !.toggleExpanded[layer] = "false",
                   !.activeElement = ToggleOf[layer]]
    ELSE u

\* closeDropdown(dropdown), main.js:665-672.
A11y_closeDropdown(u, dropdown) ==
  A11y_closeToggle([u EXCEPT !.layerOpen = @ \ {dropdown}], dropdown)

\* closeMobileNav(nav), main.js:674-682.
A11y_closeMobileNav(u, nav) ==
  A11y_announce(A11y_closeToggle([u EXCEPT !.layerOpen = @ \ {nav}], nav),
                "Navigation closed", Null)

\* document.querySelector('.modal.show'): the first shown modal in
\* document order, Null if none.
OpenModal(u) ==
  IF u.modalShow = {} THEN Null
  ELSE Modals[CHOOSE i \in 1..Len(Modals) :
                /\ Modals[i] \in u.modalShow
                /\ \A j \in 1..(i - 1) : Modals[j] \notin u.modalShow]

\* handleEscape(event), main.js:242-280.
Bundle_handleEscape(u) ==
  IF OpenModal(u) # Null THEN A11y_closeModal(u, OpenModal(u))
  ELSE IF "nav-dropdown" \in u.layerOpen
    THEN A11y_closeDropdown(u, "nav-dropdown")
  ELSE IF "mobile-nav" \in u.layerOpen
    THEN A11y_closeMobileNav(u, "mobile-nav")
  ELSE IF "header-user" \in u.layerOpen
    THEN A11y_closeToggle([u EXCEPT !.layerOpen = @ \ {"header-user"}],
                          "header-user")
  ELSE IF u.currentFocusTrap # Null THEN A11y_exitFocusTrap(u)
  ELSE u

\* handleEscape(event), part_002:104-130.
Module_handleEscape(u) ==
  IF OpenModal(u) # Null THEN A11y_closeModal(u, OpenModal(u))
  ELSE IF "nav-dropdown" \in u.layerOpen
    THEN A11y_closeDropdown(u, "nav-dropdown")
  ELSE IF "mobile-nav" \in u.layerOpen
    THEN A11y_closeMobileNav(u, "mobile-nav")
  ELSE IF u.currentFocusTrap # Null THEN A11y_exitFocusTrap(u)
  ELSE u

\* ========================================= component manager (main.js)
\* showModal(modal), main.js:738-749.  The CustomEvent is created without
\* bubbles, so the 'show.modal' listener on document (main.js:393) is not
\* on its path and does not run; window.a11y is set.
Comp_showModal(u, modal) ==
  A11y_enterFocusTrap([u EXCEPT !.modalShow = @ \cup {modal},
                                !.ariaHidden[modal] = "false",
                                !.bodyOverflow = "hidden"], modal)

\* hideModal(modal), main.js:751-762; 'hide.modal' does not bubble either.
Comp_hideModal(u, modal) ==
  A11y_exitFocusTrap([u EXCEPT !.modalShow = @ \ {modal},
                               !.ariaHidden[modal] = "true",
                               !.bodyOverflow = ""])

\* openDropdown(dropdown, trigger), main.js:802-805; the trigger is the
\* one whose data-dropdown-toggle names the dropdown.
Comp_openDropdown(u, dropdown) ==
  [u EXCEPT !.dropOpen = @ \cup {dropdown},
            !.triggerExpanded[dropdown] = "true"]

\* closeDropdown(dropdown), main.js:807-813.
Comp_closeDropdown(u, dropdown) ==
  [u EXCEPT !.dropOpen = @ \ {dropdown},
            !.triggerExpanded[dropdown] = "false"]

\* document.querySelectorAll('.dropdown.open').forEach(closeDropdown)
\* over the open dropdowns other than keep (main.js:789-793, 778-780).
RECURSIVE Comp_closeOpenDropdowns(_, _)
Comp_closeOpenDropdowns(u, keep) ==
  IF u.dropOpen \ keep = {} THEN u
  ELSE LET d == CHOOSE x \in u.dropOpen \ keep : TRUE
       IN  Comp_closeOpenDropdowns(Comp_closeDropdown(u, d), keep)

\* toggleDropdown(dropdown, trigger), main.js:785-800.
Comp_toggleDropdown(u, dropdown) ==
  LET isOpen == dropdown \in u.dropOpen
      u1 == Comp_closeOpenDropdowns(u, {dropdown})
  IN  IF isOpen THEN Comp_closeDropdown(u1, dropdown)
                ELSE Comp_openDropdown(u1, dropdown)

\* e.target.closest('.dropdown') is null (main.js:777): target is the
\* trigger of a dropdown, "inside" or "outside".
OutsideDropdowns(target) ==
  IF target \in Dropdowns THEN target \notin triggerInDropdown
                          ELSE target = "outside"

\* The document click listener of setupDropdownHandlers, main.js:765-782.
Comp_onDropdownClick(u, target) ==
  LET u1 == IF target \in Dropdowns THEN Comp_toggleDropdown(u, target)
                                    ELSE u
  IN  IF OutsideDropdowns(target) THEN Comp_closeOpenDropdowns(u1, {})
                                  ELSE u1

\* The "Deactivate all tabs" loop of activateTab over the tabs in todo,
\* main.js:834-842.
RECURSIVE Comp_deactivateTabs(_, _)
Comp_deactivateTabs(u, todo) ==
  IF todo = {} THEN u
  ELSE LET tab == CHOOSE x \in todo : TRUE
           panelId == Controls[tab]
           u1 == [u EXCEPT !.tabSelected[tab] = "false",
                           !.tabActive = @ \ {tab}]
           u2 == IF panelId \in Panels
                   THEN [u1 EXCEPT !.panelHidden[panelId] = TRUE]
                   ELSE u1
       IN  Comp_deactivateTabs(u2, todo \ {tab})

\* activateTab that leaves the panels of the other tabs as they are.
Mut_Comp_activateTab(u, activeTab) ==
  IF activeTab \notin Tabs THEN u
  ELSE LET tabId == Controls[activeTab]
           u1 == Comp_deactivateTabs(u, Tabs)
           u2 == [u1 EXCEPT !.tabSelected[activeTab] = "true",
                            !.tabActive = @ \cup {activeTab},
                            !.panelHidden = u.panelHidden]
       IN  IF tabId \in Panels
             THEN [u2 EXCEPT !.panelHidden[tabId] = FALSE]
             ELSE u2

\* activateTab(activeTab), main.js:825-850.
Comp_activateTab(u, activeTab) ==
  IF activeTab \notin Tabs THEN u
  ELSE LET tabId == Controls[activeTab]
           u1 == Comp_deactivateTabs(u, Tabs)
           u2 == [u1 EXCEPT !.tabSelected[activeTab] = "true",
                            !.tabActive = @ \cup {activeTab}]
       IN  IF tabId \in Panels
             THEN [u2 EXCEPT !.panelHidden[tabId] = FALSE]
             ELSE u2

\* aValue.localeCompare(bValue): negative, zero or positive.
localeCompare(aValue, bValue) ==
  IndexOf(Collation, aValue) - IndexOf(Collation, bValue)

\* The comparator sortTable passes to rows.sort, main.js:881-897.
SortComparator(a, b, columnIndex, newDirection) ==
  LET aValue == RowCells[a][columnIndex + 1]
      bValue == RowCells[b][columnIndex + 1]
      aNum == parseFloat[aValue]
      bNum == parseFloat[bValue]
      comparison == IF ~isNaN(aNum) /\ ~isNaN(bNum)
                      THEN aNum.value - bNum.value
                      ELSE localeCompare(aValue, bValue)
  IN  IF newDirection = "asc" THEN comparison ELSE 0 - comparison

\* Array.prototype.sort: a stable sort, here by insertion from the left.
RECURSIVE InsertRow(_, _, _, _)
InsertRow(sorted, row, columnIndex, newDirection) ==
  IF sorted = <<>> THEN <<row>>
  ELSE IF SortComparator(Head(sorted), row, columnIndex, newDirection) > 0
    THEN <<row>> \o sorted
  ELSE <<Head(sorted)>>
         \o InsertRow(Tail(sorted), row, columnIndex, newDirection)

RECURSIVE SortRows(_, _, _)
SortRows(rows, columnIndex, newDirection) ==
  IF rows = <<>> THEN <<>>
  ELSE InsertRow(SortRows(SubSeq(rows, 1, Len(rows) - 1), columnIndex,
                          newDirection),
                 rows[Len(rows)], columnIndex, newDirection)

\* a.children[columnIndex] is undefined for some row the comparator is
\* called with: reading its textContent throws a TypeError.
ComparatorThrows(rows, columnIndex) ==
  /\ Len(rows) >= 2
  /\ \E i \in 1..Len(rows) : Len(RowCells[rows[i]]) < columnIndex + 1

\* sortTable that clears no sort indicator before it sets the new one.
Mut_Comp_sortTable(u, header) ==
  LET columnIndex == IndexOf(Headers, header)
      rows == u.tbodyRows
      currentDirection == u.sortDirection[header]
      newDirection == IF currentDirection = "asc" THEN "desc" ELSE "asc"
      u1 == [u EXCEPT !.sortDirection[header] = newDirection,
                      !.lastSort = [header |-> header,
                                    direction |-> newDirection]]
  IN  IF ComparatorThrows(rows, columnIndex) THEN u1
      ELSE A11y_announce(
             [u1 EXCEPT !.tbodyRows =
                          SortRows(rows, columnIndex, newDirection)],
             "Table sorted by " \o header \o ", " \o newDirection
               \o "ending order",
             Null)

\* sortTable(header), main.js:861-906.  When the comparator throws, the
\* listener ends there: the rows stay and nothing is announced.
Comp_sortTable(u, header) ==
  LET columnIndex == IndexOf(Headers, header)
      rows == u.tbodyRows
      currentDirection == u.sortDirection[header]
      newDirection == IF currentDirection = "asc" THEN "desc" ELSE "asc"
      u1 == [u EXCEPT !.sortDirection =
                        [th \in HeaderSet |->
                           IF th = header THEN newDirection ELSE Null],
                      !.lastSort = [header |-> header,
                                    direction |-> newDirection]]
  IN  IF ComparatorThrows(rows, columnIndex) THEN u1
      ELSE A11y_announce(
             [u1 EXCEPT !.tbodyRows =
                          SortRows(rows, columnIndex, newDirection)],
             "Table sorted by " \o header \o ", " \o newDirection
               \o "ending order",
             Null)

\* ------------------------------------------------------------- actions
\* The handlers that show or close a modal.
ModalOps == {"showModal", "hideModal", "escape"}

\* Commit the state u a handler of the page ended in.
UiCommit(op, arg, u) ==
  /\ Len(u.liveTimers) <= MaxAnnounceTimers
  /\ currentFocusTrap' = u.currentFocusTrap
  /\ lastFocusedElement' = u.lastFocusedElement
  /\ activeElement' = u.activeElement
  /\ modalShow' = u.modalShow
  /\ ariaHidden' = u.ariaHidden
  /\ bodyOverflow' = u.bodyOverflow
  /\ layerOpen' = u.layerOpen
  /\ toggleExpanded' = u.toggleExpanded
  /\ liveText' = u.liveText
  /\ liveTimers' = u.liveTimers
  /\ dropOpen' = u.dropOpen
  /\ triggerExpanded' = u.triggerExpanded
  /\ tabSelected' = u.tabSelected
  /\ tabActive' = u.tabActive
  /\ panelHidden' = u.panelHidden
  /\ sortDirection' = u.sortDirection
  /\ tbodyRows' = u.tbodyRows
  /\ lastAnnounce' = u.lastAnnounce
  /\ lastSort' = u.lastSort
  /\ uiLast' = [op |-> op, arg |-> arg, pre |-> UiCur]
  /\ modalRun' = IF op = "showModal" /\ modalShow = {}
                   THEN [before |-> activeElement, ops |-> {op}]
                   ELSE IF modalRun.before = Null \/ op \notin ModalOps
                     THEN modalRun
                   ELSE [modalRun EXCEPT !.ops = @ \cup {op}]
  /\ UNCHANGED <<a11yImpl, hasToggle, triggerInDropdown>>
  /\ UNCHANGED <<themeVars, formVars>>

\* A click on a data-modal-target trigger of a modal that is not shown, or
\* window.components.showModal(modal).
ShowModal ==
  /\ a11yImpl = "bundle"
  /\ \E modal \in ModalSet \ modalShow :
       UiCommit("showModal", modal, Comp_showModal(UiCur, modal))

\* A click on the close button or the backdrop of a shown modal.
HideModal ==
  /\ a11yImpl = "bundle"
  /\ \E modal \in modalShow :
       UiCommit("hideModal", modal, Comp_hideModal(UiCur, modal))

\* keydown with key 'Escape': handleGlobalKeydown calls handleEscape.
Escape ==
  LET u == IF a11yImpl = "bundle" THEN Bundle_handleEscape(UiCur)
                                  ELSE Module_handleEscape(UiCur)
  IN  /\ Len(u.liveTimers) <= MaxAnnounceTimers
      /\ UiCommit("escape", Null, u)

\* The oldest announce timer fires (all have the same delay of 100 ms).
AnnounceTimeout ==
  /\ liveTimers # <<>>
  /\ UiCommit("announceTimeout", Head(liveTimers),
              A11y_announceCallback([UiCur EXCEPT !.liveTimers = Tail(@)],
                                    Head(liveTimers)))

\* window.a11y.announce(message, priority) called by a script of the page.
Announce ==
  /\ Len(liveTimers) < MaxAnnounceTimers
  /\ \E message \in AnnounceMessages, priority \in AnnouncePriorities :
       UiCommit("announce", <<message, priority>>,
                A11y_announce(UiCur, message, priority))

\* A script of the page opens the nav dropdown, the mobile navigation or
\* the user menu (the code that does is not part of the sources).
OpenLayer ==
  /\ layerOpen # NavLayers
  /\ \E layer \in NavLayers \ layerOpen :
       UiCommit("openLayer", layer,
                [UiCur EXCEPT !.layerOpen = @ \cup {layer}])

\* window.a11y.enterFocusTrap(element) called for the data-focus-trap
\* container while no modal covers it.
EnterFocusTrap ==
  /\ modalShow = {}
  /\ \E element \in FocusTrapElements \ ModalSet :
       UiCommit("enterFocusTrap", element,
                A11y_enterFocusTrap(UiCur, element))

\* Modals: the bundle's page, focus on one of its elements.
ModalInit ==
  /\ ThemeIdle
  /\ FormIdle
  /\ a11yImpl = "bundle"
  /\ currentFocusTrap = Null
  /\ lastFocusedElement = Null
  /\ activeElement \in PageElements
  /\ modalShow = {}
  /\ ariaHidden = [m \in ModalSet |-> Null]
  /\ bodyOverflow = ""
  /\ layerOpen = {}
  /\ hasToggle = NavLayers
  /\ toggleExpanded = [l \in NavLayers |-> Null]
  /\ modalRun = [before |-> Null, ops |-> {}]
  /\ LiveIdle
  /\ DropIdle
  /\ TabIdle
  /\ TableIdle
  /\ UiLastIdle

ModalNext ==
  \/ ShowModal
  \/ HideModal
  \/ Escape
  \/ AnnounceTimeout

ModalSpec == ModalInit /\ [][ModalNext]_vars

\* Escape: either manager, with the toggle elements or without them.
EscapeInit ==
  /\ ThemeIdle
  /\ FormIdle
  /\ a11yImpl \in A11yImpls
  /\ currentFocusTrap = Null
  /\ lastFocusedElement = Null
  /\ activeElement = "nav-link"
  /\ modalShow = {}
  /\ ariaHidden = [m \in ModalSet |-> Null]
  /\ bodyOverflow = ""
  /\ layerOpen = {}
  /\ hasToggle \in {{}, NavLayers}
  /\ toggleExpanded = [l \in NavLayers |-> Null]
  /\ modalRun = [before |-> Null, ops |-> {}]
  /\ LiveIdle
  /\ DropIdle
  /\ TabIdle
  /\ TableIdle
  /\ UiLastIdle

EscapeNext ==
  \/ ShowModal
  \/ OpenLayer
  \/ EnterFocusTrap
  \/ Escape
  \/ AnnounceTimeout

EscapeSpec == EscapeInit /\ [][EscapeNext]_vars

\* A click on the trigger of a dropdown, inside a dropdown or elsewhere
\* on the page.
DropdownClick ==
  /\ a11yImpl = "bundle"
  /\ \E target \in Dropdowns \cup ClickPlaces :
       UiCommit("dropdownClick", target, Comp_onDropdownClick(UiCur, target))

\* Dropdowns: each trigger lies inside an element with class dropdown or
\* next to it.
DropdownInit ==
  /\ ThemeIdle
  /\ FormIdle
  /\ A11yIdle
  /\ LiveIdle
  /\ dropOpen = {}
  /\ triggerExpanded = [d \in Dropdowns |-> Null]
  /\ triggerInDropdown \in SUBSET Dropdowns
  /\ TabIdle
  /\ TableIdle
  /\ UiLastIdle

DropdownNext ==
  \/ DropdownClick

DropdownSpec == DropdownInit /\ [][DropdownNext]_vars

\* A click on a role="tab" element (main.js:816-822).  No dropdown is
\* open where this action runs, so the dropdown listener changes nothing.
TabClick ==
  /\ a11yImpl = "bundle"
  /\ \E tab \in Tabs \cup {OrphanTab} :
       UiCommit("tabClick", tab, Comp_activateTab(UiCur, tab))

\* Tabs: the markup may select, mark active and show any of them.
TabInit ==
  /\ ThemeIdle
  /\ FormIdle
  /\ A11yIdle
  /\ LiveIdle
  /\ DropIdle
  /\ tabSelected \in [Tabs \cup {OrphanTab} -> {"true", "false"}]
  /\ tabActive \in SUBSET Tabs
  /\ panelHidden \in [Panels -> BOOLEAN]
  /\ TableIdle
  /\ UiLastIdle

TabNext ==
  \/ TabClick

TabSpec == TabInit /\ [][TabNext]_vars

\* A click on a th.sortable of the table (main.js:853-858).
HeaderClick ==
  /\ a11yImpl = "bundle"
  /\ \E header \in HeaderSet :
       UiCommit("headerClick", header, Comp_sortTable(UiCur, header))

\* Tables: any body, no header marked.
TableInit ==
  /\ ThemeIdle
  /\ FormIdle
  /\ A11yIdle
  /\ LiveIdle
  /\ DropIdle
  /\ TabIdle
  /\ sortDirection = [h \in HeaderSet |-> Null]
  /\ tbodyRows \in TableBodies
  /\ lastSort = [header |-> Null, direction |-> Null]
  /\ UiLastIdle

TableNext ==
  \/ HeaderClick
  \/ AnnounceTimeout

TableSpec == TableInit /\ [][TableNext]_vars

\* Announcements: calls of announce and the timers they start.
AnnounceInit ==
  /\ ThemeIdle
  /\ FormIdle
  /\ UiIdle

AnnounceNext ==
  \/ Announce
  \/ AnnounceTimeout

AnnounceSpec == AnnounceInit /\ [][AnnounceNext]_vars

\* ================================================================ claims
\* EffectiveTheme as the specification defines it: dark iff the preference
\* p is dark, or p is auto and the OS prefers dark (m); light otherwise.
Resolve(p, m) ==
  IF p = "dark" \/ (p = "auto" /\ m) THEN "dark" ELSE "light"

\* What getEffectiveTheme() returns when called in the current state.
EffectiveNow ==
  (IF impl = "bundle" THEN Bundle_getActualTheme(Cur)
                      ELSE Module_getAppliedTheme(Cur)).ret

\* The EffectiveTheme a themechange event carries in its detail.
EffectiveOf(ev) ==
  IF impl = "bundle" THEN ev.actualTheme ELSE ev.appliedTheme

\* C1: after setTheme(P) with P in {light, dark, auto}, getActualTheme() /
\* getAppliedTheme() returns dark iff P = dark, or P = auto and the OS
\* prefers dark; otherwise it returns light.
C1_SetThenGetEffective ==
  (last.op = "setTheme" /\ last.arg \in ThemeSet)
    => EffectiveNow = Resolve(last.arg, matches)

C1_Witness ==
  /\ last.op = "setTheme" /\ last.arg = "auto"
  /\ last.pre.currentTheme = "light"
  /\ matches
  /\ EffectiveNow = "dark"

\* C2: setTheme(v) with v outside {light, dark, auto} is rejected (logged as
\* invalid) and leaves the stored and the in-memory preference as they were.
C2_InvalidSetThemeKeepsPreference ==
  (last.op = "setTheme" /\ last.arg \notin ThemeSet)
    => /\ "invalid" \in warns
       /\ currentTheme = last.pre.currentTheme
       /\ stored = last.pre.stored

\* C3: when the constructor has finished, data-theme is the EffectiveTheme
\* of the resolved preference under the current OS setting.
C3_InitAppliesEffectiveTheme ==
  last.op = "init" => dataTheme = Resolve(currentTheme, matches)

\* C4: when the key is absent or holds no theme at startup, the in-memory
\* preference after the constructor is auto.
C4_InitFallsBackToAuto ==
  (last.op = "init" /\ ~readFails /\ last.pre.stored \notin ThemeSet)
    => currentTheme = "auto"

\* C5: with preference auto, an OS colour-scheme change to dark (light)
\* makes data-theme dark (light) and dispatches exactly one themechange.
C5_AutoFollowsSystemChange ==
  (last.op = "change" /\ last.pre.currentTheme = "auto")
    => /\ dataTheme = (IF last.arg THEN "dark" ELSE "light")
       /\ Len(events) = 1

\* C6: with preference light or dark, an OS colour-scheme change dispatches
\* no themechange and leaves data-theme as it was.
C6_FixedPreferenceIgnoresSystemChange ==
  (last.op = "change" /\ last.pre.currentTheme \in {"light", "dark"})
    => /\ events = <<>>
       /\ dataTheme = last.pre.dataTheme

C6_Witness ==
  /\ last.op = "change" /\ last.arg = TRUE
  /\ last.pre.currentTheme = "light"
  /\ dataTheme = "light"

\* C7: cycleTheme() takes light to dark, dark to auto and auto to light, and
\* three consecutive calls from a valid preference return to it.
C7_CycleOrder ==
  /\ (last.op = "cycleTheme" /\ last.pre.currentTheme \in ThemeSet)
       => currentTheme = CASE last.pre.currentTheme = "light" -> "dark"
                           [] last.pre.currentTheme = "dark" -> "auto"
                           [] last.pre.currentTheme = "auto" -> "light"
  /\ (cycleRun = 3 /\ cycleStart \in ThemeSet) => currentTheme = cycleStart

C7_Witness ==
  /\ last.op = "cycleTheme"
  /\ cycleRun = 3 /\ cycleStart = "dark" /\ currentTheme = "dark"

\* C8: setTheme(P) with valid P, also P the current preference, dispatches
\* exactly one themechange; it carries theme P and the EffectiveTheme of P
\* under the OS setting, which is the value written to data-theme.
C8_SetThemeNotifiesOnce ==
  (last.op = "setTheme" /\ last.arg \in ThemeSet)
    => /\ Len(events) = 1
       /\ events[1].theme = last.arg
       /\ EffectiveOf(events[1]) = Resolve(last.arg, matches)
       /\ dataTheme = EffectiveOf(events[1])

C8_Witness ==
  /\ last.op = "setTheme" /\ last.arg = "auto"
  /\ last.pre.currentTheme = "auto"
  /\ matches
  /\ Len(events) = 1 /\ EffectiveOf(events[1]) = "dark"

\* C9: after the constructor, whenever a handler has returned, data-theme
\* is the EffectiveTheme of the current preference under the OS setting.
C9_DataThemeIsResolved ==
  pc = "ready" => dataTheme = Resolve(currentTheme, matches)

\* C10: after the constructor, data-theme is light or dark.
C10_DataThemeLightOrDark ==
  pc = "ready" => dataTheme \in {"light", "dark"}

\* C11: every value the theme manager writes under the key is light, dark
\* or auto; so once the constructor has run with working storage the stored
\* value is one of the three, whatever it was before.
C11_StoredIsTheme ==
  (last.op = "init" /\ ~readFails /\ ~writeFails) => stored \in ThemeSet

\* C12: with working storage, after the constructor and after every
\* setTheme / cycleTheme call the stored value equals the in-memory
\* preference (a rejected setTheme keeps them equal), and the constructor
\* leaves a valid stored value as it was.
C12_StoredEqualsPreference ==
  /\ ( /\ last.op \in {"init", "setTheme", "cycleTheme"}
       /\ ~writeFails
       /\ (last.op = "setTheme" /\ last.arg \notin ThemeSet)
            => last.pre.stored = last.pre.currentTheme )
       => stored = currentTheme
  /\ (last.op = "init" /\ ~readFails /\ ~writeFails
        /\ last.pre.stored \in ThemeSet)
       => stored = last.pre.stored

C12_Witness ==
  /\ last.op = "init" /\ ~readFails /\ ~writeFails
  /\ last.pre.stored = "dark"
  /\ stored = "dark" /\ currentTheme = "dark"

\* C13: when reading the key throws at startup, the constructor still
\* finishes with preference auto and data-theme the EffectiveTheme of auto
\* under the OS setting.
C13_ReadFailureFallsBack ==
  (last.op = "init" /\ readFails)
    => /\ currentTheme = "auto"
       /\ dataTheme = Resolve("auto", matches)

\* The successor of a preference in the cycle order.
CycleNext(p) ==
  CASE p = "light" -> "dark"
    [] p = "dark" -> "auto"
    [] p = "auto" -> "light"

\* C14: when writing the key throws, setTheme(P) and cycleTheme() still
\* set the in-memory preference, update data-theme and dispatch one
\* themechange as with working storage; only the stored value stays.
C14_WriteFailureIsSessionOnly ==
  ( /\ writeFails
    /\ \/ last.op = "setTheme" /\ last.arg \in ThemeSet
       \/ last.op = "cycleTheme" /\ last.pre.currentTheme \in ThemeSet )
    => /\ currentTheme = IF last.op = "setTheme"
                           THEN last.arg
                           ELSE CycleNext(last.pre.currentTheme)
       /\ dataTheme = Resolve(currentTheme, matches)
       /\ Len(events) = 1
       /\ events[1].theme = currentTheme
       /\ EffectiveOf(events[1]) = dataTheme
       /\ stored = last.pre.stored

C14_Witness ==
  /\ writeFails
  /\ last.op = "setTheme" /\ last.arg = "dark"
  /\ last.pre.stored = "light"
  /\ stored = "light" /\ currentTheme = "dark" /\ dataTheme = "dark"

\* C15: with working storage, setTheme(P) followed by a reload and a fresh
\* constructor gives preference P, whatever the OS setting was and whatever
\* OS changes came in between.
C15_PreferenceSurvivesReload ==
  (last.op = "init" /\ ~readFails /\ setPending # Null)
    => currentTheme = setPending

C15_Witness ==
  /\ last.op = "init" /\ ~readFails
  /\ setPending = "light"
  /\ currentTheme = "light"
  /\ matches

\* C16: getTheme() and getActualTheme() / getAppliedTheme() change nothing
\* and dispatch no event.
C16_GettersArePure ==
  last.op \in {"getTheme", "getEffectiveTheme"}
    => /\ currentTheme = last.pre.currentTheme
       /\ matches = last.pre.matches
       /\ systemTheme = last.pre.systemTheme
       /\ stored = last.pre.stored
       /\ dataTheme = last.pre.dataTheme
       /\ events = <<>>

C16_Witness ==
  /\ last.op = "getEffectiveTheme"
  /\ currentTheme = "auto"
  /\ last.ret = "dark"

\* C17: an OS colour-scheme change leaves the in-memory preference and the
\* stored value (and the key's presence) as they were, for every preference.
C17_SystemChangeKeepsPreference ==
  last.op = "change"
    => /\ currentTheme = last.pre.currentTheme
       /\ stored = last.pre.stored

\* The handler state before the last handler ran, with no transition.
PreState ==
  [matches |-> last.pre.matches, stored |-> last.pre.stored,
   currentTheme |-> last.pre.currentTheme,
   systemTheme |-> last.pre.systemTheme, dataTheme |-> last.pre.dataTheme,
   metaColor |-> last.pre.metaColor, toggleTheme |-> last.pre.toggleTheme,
   transitioning |-> FALSE, timers |-> 0,
   events |-> <<>>, warns |-> {}, ret |-> Null]

\* The page is as handler state s says, the transition aside.
SameEffect(s) ==
  /\ currentTheme = s.currentTheme
  /\ stored = s.stored
  /\ dataTheme = s.dataTheme
  /\ metaColor = s.metaColor
  /\ toggleTheme = s.toggleTheme
  /\ events = s.events

\* C18: a click on a toggle does what cycleTheme() does when its value is
\* cycle, what setTheme(m) does when its value m is a theme, and otherwise
\* leaves preference, stored value and data-theme as they were.
C18_ToggleClickEffect ==
  last.op = "click"
    => IF last.arg = "cycle"
         THEN SameEffect(IF impl = "bundle"
                           THEN Bundle_cycleTheme(PreState)
                           ELSE Module_cycleTheme(PreState))
       ELSE IF last.arg \in ThemeSet
         THEN SameEffect(IF impl = "bundle"
                           THEN Bundle_setTheme(PreState, last.arg)
                           ELSE Module_setTheme(PreState, last.arg))
       ELSE /\ currentTheme = last.pre.currentTheme
            /\ stored = last.pre.stored
            /\ dataTheme = last.pre.dataTheme

C18_Witness ==
  /\ last.op = "click" /\ last.arg = "blue"
  /\ impl = "module"
  /\ currentTheme = "dark" /\ dataTheme = "dark"

\* C20: after the constructor every change of data-theme comes with a
\* themechange event that carries the new value.
C20_DataThemeChangeIsNotified ==
  (pc = "ready" /\ dataTheme # last.pre.dataTheme)
    => /\ events # <<>>
       /\ EffectiveOf(events[Len(events)]) = dataTheme

\* C19: fetchFormConfig never rejects; after a network error or a response
\* that is not OK it resolves to null and initializeForm calls none of the
\* CustomFormScripts methods; with the id input missing or empty no request
\* is sent and none is called either.
C19_FetchFailureRunsNothing ==
  /\ fPromise.state # "rejected"
  /\ (fPc \in {"resumable", "done"} /\ fNet.kind # "none"
        /\ (fNet.kind = "neterror" \/ ~ResponseOk(fNet)))
       => /\ fPromise = [state |-> "resolved", value |-> JsonNull]
          /\ fRan = {}
          /\ fDom = [removed |-> {}, background |-> Null,
                     observing |-> FALSE]
  /\ (fPc = "done" /\ ~Truthy(fInput))
       => /\ fRequests = <<>>
          /\ fRan = {}

C19_Witness ==
  /\ fPc = "done"
  /\ fNet.kind = "response" /\ fNet.status = 500
  /\ fNet.body.kind = "rows"
  /\ fRan = {}

\* C21: after any sequence of showModal / hideModal calls at the end of
\* which no modal is shown, the focus is on the element that had it just
\* before the first showModal and lastFocusedElement is null.
C21_FocusReturnsAfterModals ==
  (/\ modalRun.before # Null
   /\ modalRun.ops \subseteq {"showModal", "hideModal"}
   /\ modalShow = {})
    => /\ activeElement = modalRun.before
       /\ lastFocusedElement = Null

\* C22: in every state reached by showModal, hideModal and Escape presses,
\* currentFocusTrap is a modal that is shown whenever some modal is shown,
\* and null whenever none is.
C22_FocusTrapTracksModals ==
  /\ modalShow # {} => currentFocusTrap \in modalShow
  /\ modalShow = {} => currentFocusTrap = Null

\* C23: in every state reached by showModal, hideModal and Escape presses,
\* document.body's overflow is 'hidden' iff some modal has class show.
C23_ScrollLockedIffModalShown ==
  bodyOverflow = "hidden" <=> modalShow # {}

\* What is open in state u: the shown modals, the open nav layers, and the
\* focus trap when one is active.
OpenLayers(u) ==
  u.modalShow \cup u.layerOpen
    \cup (IF u.currentFocusTrap # Null THEN {"focus-trap"} ELSE {})

\* The place of a layer in the order of the claim.
Priority(x) ==
  CASE x \in ModalSet -> 1
    [] x = "nav-dropdown" -> 2
    [] x = "mobile-nav" -> 3
    [] x = "header-user" -> 4
    [] OTHER -> 5

\* C24: one Escape press closes exactly one layer, the first open one in
\* the order shown modal, nav dropdown, mobile navigation, user menu,
\* focus trap; every other layer stays as it was, and with nothing open
\* the press changes no state.  A modal that is closed may take the focus
\* trap entered for it with it (closing it is part of closing the modal).
C24_EscapeClosesTopLayerOnly ==
  uiLast.op = "escape" =>
    LET before == OpenLayers(uiLast.pre)
        after == OpenLayers(UiCur)
    IN  IF before = {} THEN UiCur = uiLast.pre
        ELSE \E x \in before :
               /\ \A y \in before : Priority(x) <= Priority(y)
               /\ \/ after = before \ {x}
                  \/ /\ x = uiLast.pre.currentFocusTrap
                     /\ after = before \ {x, "focus-trap"}

\* C25: when the click handler finishes after a click on the trigger of a
\* closed dropdown D, D is open, its trigger has aria-expanded 'true' and
\* every other dropdown is closed; after a click on the trigger of an open
\* dropdown D, D is closed with aria-expanded 'false'; at most one
\* dropdown is open after any sequence of clicks.
C25_TriggerClickTogglesDropdown ==
  /\ (uiLast.op = "dropdownClick" /\ uiLast.arg \in Dropdowns) =>
       LET D == uiLast.arg
       IN  IF D \notin uiLast.pre.dropOpen
             THEN dropOpen = {D} /\ triggerExpanded[D] = "true"
             ELSE D \notin dropOpen /\ triggerExpanded[D] = "false"
  /\ Cardinality(dropOpen) <= 1

\* C26: after activateTab(t) on a tab of the tablist, t is the only tab of
\* the tablist with aria-selected 'true' and the only one with class
\* active, the panel t controls is not hidden and every panel another tab
\* of the tablist controls is hidden; in every state a sequence of tab
\* clicks reaches.
C26_OneActiveTab ==
  (uiLast.op = "tabClick" /\ uiLast.arg \in Tabs) =>
    LET t == uiLast.arg
    IN  /\ \A x \in Tabs : tabSelected[x] = "true" <=> x = t
        /\ \A x \in Tabs : x \in tabActive <=> x = t
        /\ Controls[t] \in Panels => ~panelHidden[Controls[t]]
        /\ \A x \in Tabs \ {t} :
             Controls[x] \in Panels => panelHidden[Controls[x]]

\* tab2 was clicked while tab1 was selected, active and showing its panel.
C26_Witness ==
  /\ uiLast.op = "tabClick"
  /\ uiLast.arg = "tab2"
  /\ uiLast.pre.tabSelected["tab1"] = "true"
  /\ "tab1" \in uiLast.pre.tabActive
  /\ ~uiLast.pre.panelHidden["panel1"]
  /\ uiLast.pre.panelHidden["panel2"]
  /\ ~panelHidden["panel2"]

\* The elements of a sequence.
Range(seq) == {seq[i] : i \in 1..Len(seq)}

\* C27: after any sequence of sortTable calls only the header sorted last
\* carries data-sort-direction; after a call its value is 'desc' iff the
\* call before was for the same header and set 'asc', and 'asc' otherwise;
\* the table body holds the same rows as before the call.
C27_SortDirectionAndRows ==
  /\ \A h \in HeaderSet :
       sortDirection[h] # Null <=> h = lastSort.header
  /\ uiLast.op = "headerClick" =>
       LET h == uiLast.arg
           before == uiLast.pre.lastSort
       IN  /\ sortDirection[h] =
                IF before.header = h /\ before.direction = "asc"
                  THEN "desc" ELSE "asc"
           /\ Len(tbodyRows) = Len(uiLast.pre.tbodyRows)
           /\ Range(tbodyRows) = Range(uiLast.pre.tbodyRows)

\* Score was sorted twice in a row: it is 'desc', Name carries nothing,
\* and the rows came out in another order.
C27_Witness ==
  /\ uiLast.op = "headerClick"
  /\ uiLast.arg = "Score"
  /\ uiLast.pre.lastSort = [header |-> "Score", direction |-> "asc"]
  /\ sortDirection = [h \in HeaderSet |->
                        IF h = "Score" THEN "desc" ELSE Null]
  /\ tbodyRows # uiLast.pre.tbodyRows

\* The live region a call of announce with this priority is addressed to.
RegionAddressed(priority) ==
  IF priority = "assertive" THEN "aria-live-assertive"
                            ELSE "aria-live-polite"

\* C28: whatever the spacing of the announce calls and the timers, once no
\* timer is pending each live region shows the message of the latest
\* announce addressed to it, and a call addressed to one region leaves the
\* text of the other as it was.
C28_LatestAnnouncementShown ==
  /\ liveTimers = <<>> =>
       \A r \in Regions :
         lastAnnounce[r] # Null => liveText[r] = lastAnnounce[r]
  /\ uiLast.op = "announce" =>
       \A r \in Regions \ {RegionAddressed(uiLast.arg[2])} :
         liveText[r] = uiLast.pre.liveText[r]

\* The timer of a second polite announce fired after the timer of the
\* first one had written its message into the cleared region.
C28_Witness ==
  /\ uiLast.op = "announceTimeout"
  /\ uiLast.pre.liveText["aria-live-polite"] = "Saved"
  /\ liveText["aria-live-polite"] = "Deleted"
  /\ lastAnnounce["aria-live-polite"] = "Deleted"
  /\ liveText["aria-live-assertive"] = "Saved"
  /\ liveTimers = <<>>
====
